---- MODULE Spec2Model ----
(***************************************************************************)
(* Model of the request-parameter parsing engine of the epidata API        *)
(* server (src/server/_params.py) and of the API-key hooks that run around *)
(* every request (src/server/_security.py).                                *)
(*                                                                         *)
(* A Python str is a sequence of one-character strings, so that counting,  *)
(* splitting, stripping, regular-expression matching and int() are         *)
(* computed on the characters as the code computes them.                   *)
(*                                                                         *)
(* Union[int, Tuple[int, int]]  : <<v>> is the int v, <<s, e>> the tuple.  *)
(* Union[bool, Sequence]        : the record fields wildcard / values; the *)
(*                                value True is wildcard = TRUE.           *)
(* A call ends in an outcome record: kind "return" with a value, or the    *)
(* raised exception's class in kind and its message template in error.     *)
(***************************************************************************)
EXTENDS Integers, Sequences, FiniteSets, TLC

----------------------------------------------------------------------------
(* Python str primitives *)

DigitChars == <<"0", "1", "2", "3", "4", "5", "6", "7", "8", "9">>

IsDigit(c) == \E i \in 1..10 : DigitChars[i] = c

DigitValue(c) == (CHOOSE i \in 1..10 : DigitChars[i] = c) - 1

LetterChars == {"a", "d", "e", "k", "w", "x", "y", "m", "o", "n", "t", "h",
                "c", "s", "r", "u", "i", "g", "D"}

\* \w of the re module: letters, digits and the underscore
IsWord(c) == IsDigit(c) \/ c \in LetterChars \/ c = "_"

\* the character class [\w\-_]
IsKeyChar(c) == IsWord(c) \/ c = "-"

\* str.isspace for the characters of the model
IsSpace(c) == c \in {" ", "\n", "\t"}

\* str.count(c)
Count(s, c) == Cardinality({i \in 1..Len(s) : s[i] = c})

StartsWithAt(s, sep, i) ==
    /\ i + Len(sep) - 1 <= Len(s)
    /\ SubSeq(s, i, i + Len(sep) - 1) = sep

RECURSIVE FindFrom(_, _, _)
FindFrom(s, sep, i) ==
    IF i > Len(s) THEN 0
    ELSE IF StartsWithAt(s, sep, i) THEN i
    ELSE FindFrom(s, sep, i + 1)

\* str.find(sep) + 1: the first position of sep in s, 0 when absent
Find(s, sep) == FindFrom(s, sep, 1)

\* str.split(sep, maxsplit); maxsplit = -1 is Python's "no limit"
RECURSIVE Split(_, _, _)
Split(s, sep, maxsplit) ==
    LET i == Find(s, sep)
    IN  IF maxsplit = 0 \/ i = 0
        THEN <<s>>
        ELSE <<SubSeq(s, 1, i - 1)>>
                \o Split(SubSeq(s, i + Len(sep), Len(s)), sep, maxsplit - 1)

\* sep.join(parts)
RECURSIVE Join(_, _)
Join(parts, sep) ==
    IF Len(parts) = 0 THEN <<>>
    ELSE IF Len(parts) = 1 THEN parts[1]
    ELSE parts[1] \o sep \o Join(Tail(parts), sep)

\* str.replace(c, "")
\* str.replace(c, "") that replaces the first occurrence only
RemoveFirst(s, c) ==
    LET i == Find(s, <<c>>)
    IN  IF i = 0 THEN s ELSE SubSeq(s, 1, i - 1) \o SubSeq(s, i + 1, Len(s))

Remove(s, c) == SelectSeq(s, LAMBDA x : x # c)

\* str.strip()
RECURSIVE LStrip(_)
LStrip(s) ==
    IF Len(s) > 0 /\ IsSpace(s[1]) THEN LStrip(Tail(s)) ELSE s

RECURSIVE RStrip(_)
RStrip(s) ==
    IF Len(s) > 0 /\ IsSpace(s[Len(s)])
    THEN RStrip(SubSeq(s, 1, Len(s) - 1)) ELSE s

Strip(s) == RStrip(LStrip(s))

\* str.lower()
LowerChar(c) == IF c = "D" THEN "d" ELSE c

Lower(s) == [i \in 1..Len(s) |-> LowerChar(s[i])]

AllDigits(s) == \A i \in 1..Len(s) : IsDigit(s[i])

RECURSIVE DigitsValue(_)
DigitsValue(s) ==
    IF Len(s) = 0 THEN 0
    ELSE 10 * DigitsValue(SubSeq(s, 1, Len(s) - 1)) + DigitValue(s[Len(s)])

\* the text up to the first newline: where $ first matches under re.MULTILINE
FirstLine(s) ==
    LET i == Find(s, <<"\n">>)
    IN  IF i = 0 THEN s ELSE SubSeq(s, 1, i - 1)

----------------------------------------------------------------------------
(* Outcomes of a call *)

Return(v) == [kind |-> "return", error |-> "", bounds |-> <<>>, value |-> v]

Raise(e) ==
    [kind |-> "ValidationFailedException", error |-> e, bounds |-> <<>>,
     value |-> <<>>]

RaiseInverted(start, end) ==
    [kind |-> "ValidationFailedException", error |-> "inverted",
     bounds |-> <<start, end>>, value |-> <<>>]

ValueError ==
    [kind |-> "ValueError", error |-> "invalid literal for int()",
     bounds |-> <<>>, value |-> <<>>]

Returned(r) == r.kind = "return"

\* int(s): surrounding whitespace is ignored, the rest must be digits
int(s) ==
    LET t == Strip(s)
    IN  IF Len(t) > 0 /\ AllDigits(t) THEN Return(DigitsValue(t))
        ELSE ValueError

----------------------------------------------------------------------------
(* Range Normalizer and Scalar Value Parser *)

\* the inverted range let through: every unequal pair is returned
VerifyRangeNeverRaises(start, end) ==
    IF start = end
    THEN Return(<<start>>)
    ELSE Return(<<start, end>>)

\* the comparison of the second branch taken first: end >= start
VerifyRangeKeepsEqualBounds(start, end) ==
    IF end >= start
    THEN Return(<<start, end>>)
    ELSE RaiseInverted(start, end)

_verify_range(start, end) ==
    IF start = end
    THEN Return(<<start>>)
    ELSE IF end > start
    THEN Return(<<start, end>>)
    ELSE RaiseInverted(start, end)

\* _verify_range(int(first), int(last)): the arguments are evaluated in order
VerifyInts(first, last) ==
    LET a == int(first)
        b == int(last)
    IN  IF ~Returned(a) THEN a
        ELSE IF ~Returned(b) THEN b
        ELSE _verify_range(a.value, b.value)

\* int(time_value) as the returned scalar
ScalarInt(s) ==
    LET a == int(s) IN IF Returned(a) THEN Return(<<a.value>>) ELSE a

\* re.match(r"^(\d{n})$", s, re.MULTILINE)
MatchDigits(s, n) ==
    LET l == FirstLine(s) IN Len(l) = n /\ AllDigits(l)

\* re.match(r"^(\d{n})-(\d{n})$", s, re.MULTILINE)
MatchDigitsRange(s, n) ==
    LET l == FirstLine(s)
    IN  /\ Len(l) = 2 * n + 1
        /\ l[n + 1] = "-"
        /\ AllDigits(SubSeq(l, 1, n))
        /\ AllDigits(SubSeq(l, n + 2, 2 * n + 1))

\* \d{4}-\d{2}-\d{2} matching the whole of l
IsIsoDate(l) ==
    /\ Len(l) = 10
    /\ l[5] = "-"
    /\ l[8] = "-"
    /\ \A i \in {1, 2, 3, 4, 6, 7, 9, 10} : IsDigit(l[i])

\* re.match(r"^(\d{4}-\d{2}-\d{2})$", s, re.MULTILINE)
MatchIso(s) == IsIsoDate(FirstLine(s))

\* re.match(r"^(\d{4}-\d{2}-\d{2})--(\d{4}-\d{2}-\d{2})$", s, re.MULTILINE)
MatchIsoRange(s) ==
    LET l == FirstLine(s)
    IN  /\ Len(l) = 22
        /\ IsIsoDate(SubSeq(l, 1, 10))
        /\ SubSeq(l, 11, 12) = <<"-", "-">>
        /\ IsIsoDate(SubSeq(l, 13, 22))

parse_week_value(time_value) ==
    LET count_dashes == Count(time_value, "-")
    IN  IF count_dashes = 0
        THEN IF ~MatchDigits(time_value, 6)
             THEN Raise("week_format")
             ELSE ScalarInt(time_value)
        ELSE IF count_dashes = 1
        THEN IF ~MatchDigitsRange(time_value, 6)
             THEN Raise("week_format")
             ELSE LET parts == Split(time_value, <<"-">>, 2)
                  IN  VerifyInts(parts[1], parts[2])
        ELSE Raise("week_format")

parse_day_value(time_value) ==
    LET count_dashes == Count(time_value, "-")
    IN  IF count_dashes = 0
        THEN IF ~MatchDigits(time_value, 8)
             THEN Raise("day_format")
             ELSE ScalarInt(time_value)
        ELSE IF count_dashes = 2
        THEN IF ~MatchIso(time_value)
             THEN Raise("day_format")
             ELSE ScalarInt(Remove(time_value, "-"))
        ELSE IF count_dashes = 1
        THEN IF ~MatchDigitsRange(time_value, 8)
             THEN Raise("day_format")
             ELSE LET parts == Split(time_value, <<"-">>, 2)
                  IN  VerifyInts(parts[1], parts[2])
        ELSE IF count_dashes = 6
        THEN IF ~MatchIsoRange(time_value)
             THEN Raise("day_format")
             ELSE LET parts == Split(time_value, <<"-", "-">>, 2)
                  IN  VerifyInts(Remove(parts[1], "-"), Remove(parts[2], "-"))
        ELSE Raise("day_format")

----------------------------------------------------------------------------
(* Directive Tokenizer *)

\* pattern.match(entry) for r"^([\w\-_]+):(.*)$": the key characters up to
\* the first colon, and what follows the colon up to the end of the line
EntryMatches(entry) ==
    LET i == Find(entry, <<":">>)
    IN  /\ i > 1
        /\ \A j \in 1..(i - 1) : IsKeyChar(entry[j])

EntryGroup1(entry) == SubSeq(entry, 1, Find(entry, <<":">>) - 1)

\* m.group(2) with the colon left in the group
EntryGroup2KeepsColon(entry) ==
    FirstLine(SubSeq(entry, Find(entry, <<":">>), Len(entry)))

EntryGroup2(entry) ==
    FirstLine(SubSeq(entry, Find(entry, <<":">>) + 1, Len(entry)))

\* one iteration of the loop: the pair appended for a matching entry
ParsedEntry(entry) ==
    LET group_type == Lower(Strip(EntryGroup1(entry)))
        group_value == Lower(Strip(EntryGroup2(entry)))
    IN  IF group_value = <<"*">>
        THEN [type |-> group_type, wildcard |-> TRUE, values |-> <<>>]
        ELSE [type |-> group_type, wildcard |-> FALSE,
              values |-> LET gs == Split(group_value, <<",">>, -1)
                         IN  [i \in 1..Len(gs) |-> Strip(gs[i])]]

\* values is request.values.getlist(key)
_parse_common_multi_arg(values) ==
    LET line == Join(values, <<";">>)
        entries == Split(line, <<";">>, -1)
    IN  IF Len(line) = 0
        THEN Return(<<>>)
        ELSE IF \E i \in 1..Len(entries) : ~EntryMatches(entries[i])
        THEN Raise("syntax")
        ELSE Return([i \in 1..Len(entries) |-> ParsedEntry(entries[i])])

\* pattern.match(v) for r"^([\w\-_]+):([\w\-_]+)$"
SingleMatches(v) ==
    LET i == Find(v, <<":">>)
        rest == FirstLine(SubSeq(v, i + 1, Len(v)))
    IN  /\ i > 1
        /\ \A j \in 1..(i - 1) : IsKeyChar(v[j])
        /\ Len(rest) > 0
        /\ \A j \in 1..Len(rest) : IsKeyChar(rest[j])

\* values is request.values.getlist(key); request.values.get is its first
Get(values) == IF Len(values) = 0 THEN <<>> ELSE values[1]

_parse_single_arg(values) ==
    LET v == Get(values)
    IN  IF Len(v) = 0
        THEN Raise("required")
        ELSE IF ~SingleMatches(v)
        THEN Raise("single_syntax")
        ELSE Return(<<Lower(Strip(EntryGroup1(v))),
                      Lower(Strip(EntryGroup2(v)))>>)

----------------------------------------------------------------------------
(* Geography and source/signal filters *)

GeoFilter(geo_type, wildcard, geo_values) ==
    [geo_type |-> geo_type, wildcard |-> wildcard, geo_values |-> geo_values]

SourceSignalFilter(source, wildcard, signal) ==
    [source |-> source, wildcard |-> wildcard, signal |-> signal]

RECURSIVE FirstOfEachType(_, _)
\* the entries of parsed whose type no earlier entry has
FirstOfEachType(parsed, seen) ==
    IF Len(parsed) = 0 THEN <<>>
    ELSE IF parsed[1].type \in seen
    THEN FirstOfEachType(Tail(parsed), seen)
    ELSE <<parsed[1]>>
            \o FirstOfEachType(Tail(parsed), seen \cup {parsed[1].type})

\* parse_geo_arg with one filter per distinct geo_type
ParseGeoArgPerType(values) ==
    LET parsed == _parse_common_multi_arg(values)
        groups == FirstOfEachType(parsed.value, {})
    IN  IF ~Returned(parsed) THEN parsed
        ELSE Return([i \in 1..Len(groups) |->
                        GeoFilter(groups[i].type, groups[i].wildcard,
                                  groups[i].values)])

parse_geo_arg(values) ==
    LET parsed == _parse_common_multi_arg(values)
    IN  IF ~Returned(parsed) THEN parsed
        ELSE Return([i \in 1..Len(parsed.value) |->
                        GeoFilter(parsed.value[i].type,
                                  parsed.value[i].wildcard,
                                  parsed.value[i].values)])

parse_source_signal_arg(values) ==
    LET parsed == _parse_common_multi_arg(values)
    IN  IF ~Returned(parsed) THEN parsed
        ELSE Return([i \in 1..Len(parsed.value) |->
                        SourceSignalFilter(parsed.value[i].type,
                                           parsed.value[i].wildcard,
                                           parsed.value[i].values)])

----------------------------------------------------------------------------
(* Day and week calendars, and the list-to-ranges collapse of               *)
(* utils.days_to_ranges / utils.weeks_to_ranges                             *)

IsLeap(y) == (y % 4 = 0 /\ y % 100 # 0) \/ y % 400 = 0

DaysInMonth(y, m) ==
    IF m = 2 THEN (IF IsLeap(y) THEN 29 ELSE 28)
    ELSE IF m \in {4, 6, 9, 11} THEN 30 ELSE 31

RECURSIVE DaysBeforeMonth(_, _)
DaysBeforeMonth(y, m) ==
    IF m <= 1 THEN 0
    ELSE DaysBeforeMonth(y, m - 1) + DaysInMonth(y, m - 1)

\* the proleptic Gregorian ordinal of year y, month m, day d
Ordinal(y, m, d) ==
    365 * (y - 1) + ((y - 1) \div 4) - ((y - 1) \div 100) + ((y - 1) \div 400)
        + DaysBeforeMonth(y, m) + d

\* position of the day key YYYYMMDD on the day calendar
DayIndex(v) == Ordinal(v \div 10000, (v \div 100) % 100, v % 100)

\* the Sunday that starts epidemiological week 1 of year y: the week that
\* holds January 4th (ordinals divisible by 7 are Sundays)
Week1Start(y) == Ordinal(y, 1, 4) - (Ordinal(y, 1, 4) % 7)

\* position of the week key YYYYWW on the week calendar
WeekIndex(v) == (Week1Start(v \div 100) \div 7) + (v % 100) - 1

\* position of the key v on the calendar of the time type
CalendarIndex(time_type, v) ==
    IF time_type = <<"w", "e", "e", "k">> THEN WeekIndex(v) ELSE DayIndex(v)

\* a scalar or range as <<first, last, position of first, position of last>>
Interval(v, time_type) ==
    IF Len(v) = 1
    THEN <<v[1], v[1], CalendarIndex(time_type, v[1]),
           CalendarIndex(time_type, v[1])>>
    ELSE <<v[1], v[2], CalendarIndex(time_type, v[1]),
           CalendarIndex(time_type, v[2])>>

IntervalBefore(a, b) == a[3] < b[3] \/ (a[3] = b[3] /\ a[4] < b[4])

\* merge the sorted intervals: one that overlaps or touches the last merged
\* interval extends it, any other starts a new one
RECURSIVE MergeIntervals(_, _)
MergeIntervals(intervals, merged) ==
    IF Len(intervals) = 0 THEN merged
    ELSE LET cur == Head(intervals)
             n == Len(merged)
         IN  IF n = 0 \/ merged[n][4] + 1 < cur[3]
             THEN MergeIntervals(Tail(intervals), Append(merged, cur))
             ELSE MergeIntervals(
                     Tail(intervals),
                     [merged EXCEPT ![n] =
                         IF cur[4] > @[4]
                         THEN <<@[1], cur[2], @[3], cur[4]>> ELSE @])

\* the minimal list of scalars and ranges covering the given values
ToRanges(values, time_type) ==
    LET intervals ==
            SortSeq([i \in 1..Len(values) |-> Interval(values[i], time_type)],
                    IntervalBefore)
        merged == MergeIntervals(intervals, <<>>)
    IN  [i \in 1..Len(merged) |->
            IF merged[i][3] = merged[i][4]
            THEN <<merged[i][1]>>
            ELSE <<merged[i][1], merged[i][2]>>]

days_to_ranges(values) == ToRanges(values, <<"d", "a", "y">>)

weeks_to_ranges(values) == ToRanges(values, <<"w", "e", "e", "k">>)

----------------------------------------------------------------------------
(* Time filters *)

DAY == <<"d", "a", "y">>

WEEK == <<"w", "e", "e", "k">>

TimeFilter(time_type, wildcard, time_values) ==
    [time_type |-> time_type, wildcard |-> wildcard,
     time_values |-> time_values]

\* the collapse applied to a slice that loses the last entry
ToRangesDropsLast(self) ==
    IF self.wildcard
    THEN TimeFilter(self.time_type, self.wildcard, self.time_values)
    ELSE LET values == SubSeq(self.time_values, 1, Len(self.time_values) - 1)
         IN  IF self.time_type = WEEK
             THEN TimeFilter(self.time_type, FALSE, weeks_to_ranges(values))
             ELSE TimeFilter(self.time_type, FALSE, days_to_ranges(values))

\* TimeFilter.to_ranges
to_ranges(self) ==
    IF self.wildcard
    THEN TimeFilter(self.time_type, self.wildcard, self.time_values)
    ELSE IF self.time_type = WEEK
    THEN TimeFilter(self.time_type, FALSE, weeks_to_ranges(self.time_values))
    ELSE TimeFilter(self.time_type, FALSE, days_to_ranges(self.time_values))

\* [parse(t) for t in ...] given the outcome rs[i] of each parse(t): the
\* first exception ends the comprehension, else it is the list of the values
Comprehension(rs) ==
    IF \E i \in 1..Len(rs) : ~Returned(rs[i])
    THEN rs[CHOOSE i \in 1..Len(rs) :
                /\ ~Returned(rs[i])
                /\ \A j \in 1..(i - 1) : Returned(rs[j])]
    ELSE Return([i \in 1..Len(rs) |-> rs[i].value])

\* pair is (time_type, time_values) as the tokenizer returns it
_parse_time_filter(pair) ==
    IF pair.wildcard
    THEN Return(TimeFilter(pair.type, TRUE, <<>>))
    ELSE IF pair.type = WEEK
    THEN LET vs == Comprehension([i \in 1..Len(pair.values) |->
                                    parse_week_value(pair.values[i])])
         IN  IF Returned(vs) THEN Return(TimeFilter(WEEK, FALSE, vs.value))
             ELSE vs
    ELSE IF pair.type = DAY
    THEN LET vs == Comprehension([i \in 1..Len(pair.values) |->
                                    parse_day_value(pair.values[i])])
         IN  IF Returned(vs) THEN Return(TimeFilter(DAY, FALSE, vs.value))
             ELSE vs
    ELSE Raise("time_type")

\* merged.extend(time_filter.time_values) over all the filters
RECURSIVE Extend(_)
Extend(time_filters) ==
    IF Len(time_filters) = 0 THEN <<>>
    ELSE Head(time_filters).time_values \o Extend(Tail(time_filters))

\* the loop without its wildcard test: every filter's values are collected
MergeLoopIgnoresWildcard(time_filters) ==
    to_ranges(TimeFilter(time_filters[1].time_type, FALSE,
                         Extend(time_filters)))

\* the merged filter returned without the final to_ranges()
MergeLoopNoCollapse(time_filters) ==
    IF \E i \in 1..Len(time_filters) : time_filters[i].wildcard
    THEN time_filters[CHOOSE i \in 1..Len(time_filters) :
                        /\ time_filters[i].wildcard
                        /\ \A j \in 1..(i - 1) : ~time_filters[j].wildcard]
    ELSE TimeFilter(time_filters[1].time_type, FALSE, Extend(time_filters))

\* the loop that merges two or more filters of one time type: the first
\* wildcard filter is returned as it is, explicit values are collected
MergeLoop(time_filters) ==
    IF \E i \in 1..Len(time_filters) : time_filters[i].wildcard
    THEN time_filters[CHOOSE i \in 1..Len(time_filters) :
                        /\ time_filters[i].wildcard
                        /\ \A j \in 1..(i - 1) : ~time_filters[j].wildcard]
    ELSE to_ranges(TimeFilter(time_filters[1].time_type, FALSE,
                              Extend(time_filters)))

\* the mixing test off by one: len(time_types) > 2
CombineAllowsTwoTypes(time_filters) ==
    LET time_types ==
            {time_filters[i].time_type : i \in 1..Len(time_filters)}
    IN  IF Len(time_filters) = 0 THEN Return(<<>>)
        ELSE IF Len(time_filters) = 1 THEN Return(<<time_filters[1]>>)
        ELSE IF Cardinality(time_types) > 2 THEN Raise("mixes")
        ELSE Return(<<MergeLoop(time_filters)>>)

\* no early return for a single filter: it goes through the merge as well
CombineMergesSingle(time_filters) ==
    LET time_types ==
            {time_filters[i].time_type : i \in 1..Len(time_filters)}
    IN  IF Len(time_filters) = 0 THEN Return(<<>>)
        ELSE IF Cardinality(time_types) >= 2 THEN Raise("mixes")
        ELSE Return(<<MergeLoop(time_filters)>>)

\* what parse_time_arg does with the parsed filters; None is <<>>, a
\* filter f is <<f>>
CombineTimeFilters(time_filters) ==
    LET time_types ==
            {time_filters[i].time_type : i \in 1..Len(time_filters)}
    IN  IF Len(time_filters) = 0 THEN Return(<<>>)
        ELSE IF Len(time_filters) = 1 THEN Return(<<time_filters[1]>>)
        ELSE IF Cardinality(time_types) >= 2 THEN Raise("mixes")
        ELSE Return(<<MergeLoop(time_filters)>>)

\* values is request.values.getlist(key)
parse_time_arg(values) ==
    LET parsed == _parse_common_multi_arg(values)
    IN  IF ~Returned(parsed) THEN parsed
        ELSE LET rs == Comprehension([i \in 1..Len(parsed.value) |->
                                        _parse_time_filter(parsed.value[i])])
             IN  IF ~Returned(rs) THEN rs
                 ELSE CombineTimeFilters(rs.value)

parse_single_time_arg(values) ==
    LET r == _parse_single_arg(values)
    IN  IF ~Returned(r) THEN r
        ELSE LET f == _parse_time_filter(
                        [type |-> r.value[1], wildcard |-> FALSE,
                         values |-> <<r.value[2]>>])
             IN  IF Returned(f) THEN Return(<<f.value>>) ELSE f

----------------------------------------------------------------------------
(* Cardinality estimation *)

\* a float that count() returns: math.inf or a finite number
inf == [inf |-> TRUE, n |-> 0]

Finite(n) == [inf |-> FALSE, n |-> n]

GeoFilter_count(self) ==
    IF self.wildcard THEN inf ELSE Finite(Len(self.geo_values))

SourceSignalFilter_count(self) ==
    IF self.wildcard THEN inf ELSE Finite(Len(self.signal))

\* utils.days_in_range(range): the days of the inclusive range
days_in_range(v) == CalendarIndex(DAY, v[2]) - CalendarIndex(DAY, v[1]) + 1

\* utils.weeks_in_range(range): the weeks of the inclusive range
weeks_in_range(v) ==
    CalendarIndex(WEEK, v[2]) - CalendarIndex(WEEK, v[1]) + 1

RECURSIVE sum(_)
sum(ns) == IF Len(ns) = 0 THEN 0 ELSE ns[1] + sum(Tail(ns))

\* TimeFilter.count with every entry counted as one
TimeCountEntries(self) ==
    IF self.wildcard THEN inf ELSE Finite(Len(self.time_values))

TimeFilter_count(self) ==
    IF self.wildcard THEN inf
    ELSE IF self.time_type = WEEK
    THEN Finite(sum([i \in 1..Len(self.time_values) |->
                        IF Len(self.time_values[i]) = 1 THEN 1
                        ELSE weeks_in_range(self.time_values[i])]))
    ELSE Finite(sum([i \in 1..Len(self.time_values) |->
                        IF Len(self.time_values[i]) = 1 THEN 1
                        ELSE days_in_range(self.time_values[i])]))

----------------------------------------------------------------------------
(* Entry points for one day or week parameter *)

\* the shared body of parse_day_arg, parse_week_arg, parse_day_range_arg and
\* parse_week_range_arg: r is the parsed value of the parameter, n the
\* length of the value that is returned (1 an int, 2 a tuple)
ParseValueArg(values, r, n) ==
    IF Len(Get(values)) = 0 THEN Raise("required")
    ELSE IF ~Returned(r) THEN r
    ELSE IF Len(r.value) # n THEN Raise("must_match")
    ELSE r

parse_day_range_arg(values) ==
    ParseValueArg(values, parse_day_value(Get(values)), 2)

parse_day_arg(values) ==
    ParseValueArg(values, parse_day_value(Get(values)), 1)

parse_week_arg(values) ==
    ParseValueArg(values, parse_week_value(Get(values)), 1)

parse_week_range_arg(values) ==
    ParseValueArg(values, parse_week_value(Get(values)), 2)

----------------------------------------------------------------------------
(* Legacy Compatibility Adapter *)

\* _validate.require_all(...): every named parameter is present and non-empty
require_all(params) ==
    IF \E i \in 1..Len(params) : Len(Get(params[i])) = 0
    THEN Raise("missing_param")
    ELSE Return(<<>>)

\* one legacy date token: a day or week key or a range of two keys, the
\* range normalised
ExtractDate(part) ==
    LET n == Len(part)
        h == (n - 1) \div 2
    IN  IF n \in {6, 8} /\ AllDigits(part)
        THEN Return(<<DigitsValue(part)>>)
        ELSE IF IsIsoDate(part)
        THEN Return(<<DigitsValue(Remove(part, "-"))>>)
        ELSE IF n \in {13, 17} /\ part[h + 1] = "-"
                /\ AllDigits(SubSeq(part, 1, h))
                /\ AllDigits(SubSeq(part, h + 2, n))
        THEN _verify_range(DigitsValue(SubSeq(part, 1, h)),
                           DigitsValue(SubSeq(part, h + 2, n)))
        ELSE IF n = 22 /\ IsIsoDate(SubSeq(part, 1, 10))
                /\ SubSeq(part, 11, 12) = <<"-", "-">>
                /\ IsIsoDate(SubSeq(part, 13, 22))
        THEN _verify_range(DigitsValue(Remove(SubSeq(part, 1, 10), "-")),
                           DigitsValue(Remove(SubSeq(part, 13, 22), "-")))
        ELSE Raise("date_format")

\* _validate.extract_dates(key): the comma-separated dates of the parameter
extract_dates(values) ==
    LET parts == Split(Get(values), <<",">>, -1)
    IN  Comprehension([i \in 1..Len(parts) |-> ExtractDate(parts[i])])

Contains(s, c) == \E i \in 1..Len(s) : s[i] = c

\* parse_time_filters without the check for ":" in the time parameter
TimeFiltersNoColonCheck(req) ==
    LET time_type == Get(req.time_type)
    IN  IF Len(time_type) > 0
        THEN LET required == require_all(<<req.time_type, req.time_values>>)
                 time_values == extract_dates(req.time_values)
             IN  IF ~Returned(required) THEN required
                 ELSE IF ~Returned(time_values) THEN time_values
                 ELSE Return(<<TimeFilter(time_type, FALSE,
                                          time_values.value)>>)
        ELSE parse_time_arg(req.time)

\* req is request.values: the value lists of the parameters by name
parse_time_filters(req) ==
    LET time_type == Get(req.time_type)
    IN  IF Len(time_type) > 0
        THEN LET required == require_all(<<req.time_type, req.time_values>>)
                 time_values == extract_dates(req.time_values)
             IN  IF ~Returned(required) THEN required
                 ELSE IF ~Returned(time_values) THEN time_values
                 ELSE Return(<<TimeFilter(time_type, FALSE,
                                          time_values.value)>>)
        ELSE IF ~Contains(Get(req.time), ":")
        THEN Raise("missing")
        ELSE parse_time_arg(req.time)

\* _validate.require_any(..., empty): one of the named parameters is present
\* and non-empty, or merely present when empty is set
require_any(params, empty) ==
    IF \E i \in 1..Len(params) :
            Len(Get(params[i])) > 0 \/ (empty /\ Len(params[i]) > 0)
    THEN Return(<<>>)
    ELSE Raise("missing_param")

\* _validate.extract_strings(keys): the comma-separated strings of the first
\* of the named parameters that is present
extract_strings(params) ==
    LET present == {i \in 1..Len(params) : Len(params[i]) > 0}
    IN  IF present = {} THEN <<>>
        ELSE LET first == CHOOSE i \in present : \A j \in present : i <= j
             IN  Split(Get(params[first]), <<",">>, -1)

\* the legacy branch of parse_geo_filters and parse_source_signal_filters:
\* require_any, extract_strings, lone "*" is the wildcard
LegacyFilter(type, required, values) ==
    IF ~Returned(required) THEN required
    ELSE IF Len(values) = 1 /\ values[1] = <<"*">>
    THEN Return(<<[type |-> type, wildcard |-> TRUE, values |-> <<>>]>>)
    ELSE Return(<<[type |-> type, wildcard |-> FALSE, values |-> values]>>)

\* parse_source_signal_filters with the signal parameter parsed as a
\* directive whenever it holds a ":"
SourceSignalFiltersColonFirst(req) ==
    LET ds == Get(req.data_source)
        old == LegacyFilter(ds,
                    require_any(<<req.signal, req.signals>>, TRUE),
                    extract_strings(<<req.signals, req.signal>>))
    IN  IF Contains(Get(req.signal), ":")
        THEN parse_source_signal_arg(req.signal)
        ELSE IF Len(ds) > 0
        THEN IF ~Returned(old) THEN old
             ELSE Return(<<SourceSignalFilter(ds, old.value[1].wildcard,
                                              old.value[1].values)>>)
        ELSE Raise("missing")

parse_source_signal_filters(req) ==
    LET ds == Get(req.data_source)
        old == LegacyFilter(ds,
                    require_any(<<req.signal, req.signals>>, TRUE),
                    extract_strings(<<req.signals, req.signal>>))
    IN  IF Len(ds) > 0
        THEN IF ~Returned(old) THEN old
             ELSE Return(<<SourceSignalFilter(ds, old.value[1].wildcard,
                                              old.value[1].values)>>)
        ELSE IF ~Contains(Get(req.signal), ":")
        THEN Raise("missing")
        ELSE parse_source_signal_arg(req.signal)

\* parse_geo_filters with the geo parameter parsed as a directive whenever
\* it holds a ":"
GeoFiltersColonFirst(req) ==
    LET geo_type == Get(req.geo_type)
        old == LegacyFilter(geo_type,
                    require_any(<<req.geo_value, req.geo_values>>, TRUE),
                    extract_strings(<<req.geo_values, req.geo_value>>))
    IN  IF Contains(Get(req.geo), ":")
        THEN parse_geo_arg(req.geo)
        ELSE IF Len(geo_type) > 0
        THEN IF ~Returned(old) THEN old
             ELSE Return(<<GeoFilter(geo_type, old.value[1].wildcard,
                                     old.value[1].values)>>)
        ELSE Raise("missing")

\* parse_geo_filters without the check for ":" in the geo parameter
GeoFiltersNoColonCheck(req) ==
    LET geo_type == Get(req.geo_type)
        old == LegacyFilter(geo_type,
                    require_any(<<req.geo_value, req.geo_values>>, TRUE),
                    extract_strings(<<req.geo_values, req.geo_value>>))
    IN  IF Len(geo_type) > 0
        THEN IF ~Returned(old) THEN old
             ELSE Return(<<GeoFilter(geo_type, old.value[1].wildcard,
                                     old.value[1].values)>>)
        ELSE parse_geo_arg(req.geo)

parse_geo_filters(req) ==
    LET geo_type == Get(req.geo_type)
        old == LegacyFilter(geo_type,
                    require_any(<<req.geo_value, req.geo_values>>, TRUE),
                    extract_strings(<<req.geo_values, req.geo_value>>))
    IN  IF Len(geo_type) > 0
        THEN IF ~Returned(old) THEN old
             ELSE Return(<<GeoFilter(geo_type, old.value[1].wildcard,
                                     old.value[1].values)>>)
        ELSE IF ~Contains(Get(req.geo), ":")
        THEN Raise("missing")
        ELSE parse_geo_arg(req.geo)

----------------------------------------------------------------------------
(* API keys: _security.py.  An Optional[str] or Optional[User] is a        *)
(* sequence of at most one element, <<>> being None; flask's g is the set   *)
(* of the <<name, value>> pairs stored in it for the request.               *)

\* the api_key of every row of the api_user table
Users == {"key1"}

None == <<>>

\* User.find_user(api_key=api_key): the row with that api_key, or None
find_user(api_key) ==
    IF api_key # None /\ api_key[1] \in Users
    THEN <<[api_key |-> api_key[1]]>>
    ELSE None

\* the first of the parameters auth, api_key, token that the request has,
\* then the password of the user epidata, then the bearer token
resolve_auth_token(req) ==
    IF req.auth # None THEN req.auth
    ELSE IF req.api_key # None THEN req.api_key
    ELSE IF req.token # None THEN req.token
    ELSE IF req.authorization.type = "basic"
            /\ req.authorization.username = "epidata"
    THEN <<req.authorization.password>>
    ELSE IF req.authorization.type = "Bearer"
    THEN <<req.authorization.token>>
    ELSE None

\* "user" in g
HasUser(ctx) == \E p \in ctx : p[1] = "user"

\* the outcome of _get_current_user() on the g and the request given: the g
\* it leaves and the exception it raises, "" when it returns g.user
_get_current_user(ctx, req) ==
    LET api_key == resolve_auth_token(req)
        user == find_user(api_key)
    IN  IF HasUser(ctx) THEN [g |-> ctx, raised |-> ""]
        ELSE IF api_key # None /\ api_key[1] # "" /\ user = None
        THEN [g |-> ctx, raised |-> "Unauthorized"]
        ELSE [g |-> ctx \cup {<<"user", user>>}, raised |-> ""]

URL_PREFIX == <<"/", "e", "p", "i", "d", "a", "t", "a">>

\* request.path starts with URL_PREFIX/lib, /admin or /version
_is_public_route(path) ==
    \E route \in {<<"l", "i", "b">>, <<"a", "d", "m", "i", "n">>,
                   <<"v", "e", "r", "s", "i", "o", "n">>} :
        StartsWithAt(path, URL_PREFIX \o <<"/">> \o route, 1)

----------------------------------------------------------------------------
(* Requests and arguments of the model *)

MaxEntries == 2

MaxValues == 3

MaxInt == 2

RECURSIVE Dec(_, _)
\* the decimal spelling of n in w digits
Dec(n, w) ==
    IF w = 0 THEN <<>>
    ELSE Dec(n \div 10, w - 1) \o <<DigitChars[(n % 10) + 1]>>

\* YYYY-MM-DD
Iso(n) ==
    Dec(n \div 10000, 4) \o <<"-">> \o Dec((n \div 100) % 100, 2)
        \o <<"-">> \o Dec(n % 100, 2)

Star == <<"*">>

MONTH == <<"m", "o", "n", "t", "h">>

Entry(type, part) == type \o <<":">> \o part

DayParts ==
    { Star,
      Dec(20200131, 8),
      Dec(20200201, 8),
      Iso(20200102),
      Dec(20200101, 8),
      Dec(20200131, 8) \o <<"-">> \o Dec(20200201, 8),
      Dec(20200201, 8) \o <<"-">> \o Dec(20200201, 8),
      Dec(20200201, 8) \o <<"-">> \o Dec(20200131, 8),
      Iso(20200101) \o <<"-", "-">> \o Iso(20200102),
      Dec(20200201, 8) \o <<",", " ">> \o Dec(20200131, 8),
      <<>>,
      Dec(2020020, 7) }

WeekParts ==
    { Star,
      Dec(201952, 6),
      Dec(202001, 6),
      Dec(202001, 6) \o <<"-">> \o Dec(202003, 6),
      Dec(202003, 6) \o <<"-">> \o Dec(202001, 6),
      Dec(2020, 4) \o <<"-">> \o Dec(1, 2) }

TimeEntries ==
    {Entry(DAY, p) : p \in DayParts}
        \cup {Entry(WEEK, p) : p \in WeekParts}
        \cup {Entry(MONTH, p) : p \in {Star, Dec(202001, 6)}}
        \cup { Entry(<<"D", "a", "y">>, Dec(20200102, 8)),
               DAY,
               Entry(DAY, Dec(20200201, 8)) \o <<"\n">> \o Entry(WEEK, Star),
               Entry(DAY, Dec(20200101, 8)) \o <<";">>
                    \o Entry(DAY, Dec(20200131, 8)) }

GeoEntries ==
    { <<"s", "t", "a", "t", "e", ":", "c", "a">>,
      <<"s", "t", "a", "t", "e", ":", "c", "a", ",", "t", "x">>,
      <<"s", "t", "a", "t", "e", ":", "*">>,
      <<"s", "t", "a", "t", "e", ":">>,
      <<"s", "t", "a", "t", "e", ":", "c", "a", ",", ",", "t", "x">>,
      <<"c", "o", "u", "n", "t", "y", ":", " ">>,
      <<"s", "t", "a", "t", "e">>,
      <<"D", "m", "a", ":", "D", "c">> }

SignalEntries ==
    { <<"s", "r", "c", ":", "s", "i", "g">>,
      <<"s", "r", "c", ":", "s", "i", "g", ",", "x">>,
      <<"s", "r", "c", ":", "*">>,
      <<"s", "r", "c", ":">>,
      <<"s", "r", "c">> }

LegacyTimeValues ==
    { <<>>,
      Star,
      Dec(20200201, 8),
      Dec(20200131, 8) \o <<"-">> \o Dec(20200201, 8),
      Dec(20200201, 8) \o <<"-">> \o Dec(20200201, 8),
      Dec(20200201, 8) \o <<"-">> \o Dec(20200131, 8),
      Dec(202001, 6) \o <<",">> \o Dec(202002, 6) }

\* time keys the collapse is applied to
DayKeys == {20200101, 20200102, 20200131, 20200201}

WeekKeys == {201952, 202001, 202002, 202004}

\* the compact and the ISO spelling of every day key and of every pair
DaySpellings ==
    {Dec(k, 8) : k \in DayKeys} \cup {Iso(k) : k \in DayKeys}
        \cup {Dec(p[1], 8) \o <<"-">> \o Dec(p[2], 8) :
                p \in DayKeys \X DayKeys}
        \cup {Iso(p[1]) \o <<"-", "-">> \o Iso(p[2]) :
                p \in DayKeys \X DayKeys}

DayTokens ==
    DayParts
        \cup DaySpellings
        \cup { Iso(20200201) \o <<"-", "-">> \o Iso(20200201),
               Iso(20200201) \o <<"-", "-">> \o Iso(20200131),
               Dec(20200201, 8) \o <<"\n">>,
               Dec(20200201, 8) \o <<"\n", "x">>,
               <<"x">> \o Dec(20200201, 8),
               <<" ">> \o Dec(20200201, 8),
               Dec(20200201, 8) \o <<"x">>,
               Iso(20200201) \o <<"\n">>,
               Dec(20200131, 8) \o <<"-">> \o Dec(20200201, 8) \o <<"\n">>,
               Dec(20200131, 8) \o <<"-">> \o Dec(20200201, 8)
                    \o <<"\n", "x">>,
               Iso(20200101) \o <<"-", "-">> \o Iso(20200102) \o <<"\n", "x">>,
               Dec(2020, 4) \o <<"-">> \o Dec(201, 4),
               Dec(2020, 4) \o <<"-">> \o Dec(2, 2) \o <<"-">> \o Dec(1, 1),
               Iso(20200201) \o <<"-">> \o Iso(20200101),
               Iso(20200201) \o <<"-">>,
               Dec(202001, 6) }

WeekTokens ==
    WeekParts
        \cup { Dec(202001, 6) \o <<"-">> \o Dec(202001, 6),
               Dec(202001, 6) \o <<"\n">>,
               Dec(202001, 6) \o <<"\n", "x">>,
               Dec(202001, 6) \o <<"-">> \o Dec(202003, 6) \o <<"\n">>,
               Dec(202001, 6) \o <<"-">> \o Dec(202003, 6) \o <<"\n", "x">>,
               <<"x">> \o Dec(202001, 6),
               Dec(202001, 6) \o <<"x">>,
               Dec(20200201, 8),
               Dec(2020, 4) \o <<"-">> \o Dec(1, 1) \o <<"-">> \o Dec(1, 1),
               <<>> }

\* the occurrences of one repeated parameter: up to MaxEntries values
Occurrences(entries) ==
    UNION {[1..n -> entries] : n \in 0..MaxEntries}

NoRequest ==
    [time |-> <<>>, time_type |-> <<>>, time_values |-> <<>>,
     geo |-> <<>>, geo_type |-> <<>>, geo_value |-> <<>>, geo_values |-> <<>>,
     signal |-> <<>>, data_source |-> <<>>, signals |-> <<>>,
     date |-> <<>>]

\* requests with the legacy geography parameters, with and without geo
LegacyGeoRequests ==
    {[NoRequest EXCEPT !.geo_type = ty, !.geo_value = v, !.geo_values = vs,
                       !.geo = o] :
        ty \in {<<>>, <<<<>>>>, <<<<"s", "t", "a", "t", "e">>>>,
                <<<<"D", "m", "a">>>>},
        v \in {<<>>, <<<<"c", "a">>>>, <<Star>>, <<<<"D", "c">>>>,
               <<<<"c", "a", ",", "t", "x">>>>},
        vs \in {<<>>, <<<<"t", "x">>>>},
        o \in {<<>>, <<<<"s", "t", "a", "t", "e">>>>,
               <<<<"s", "t", "a", "t", "e", ":", "t", "x">>>>}}

\* requests with the legacy source/signal parameters; signal is the
\* companion of data_source and the new-style parameter
LegacySignalRequests ==
    {[NoRequest EXCEPT !.data_source = ds, !.signal = v, !.signals = vs] :
        ds \in {<<>>, <<<<>>>>, <<<<"s", "r", "c">>>>},
        v \in {<<>>, <<<<"s", "i", "g">>>>, <<Star>>, <<<<"s", "r", "c">>>>,
               <<<<"s", "r", "c", ":", "s", "i", "g">>>>},
        vs \in {<<>>, <<<<"x">>>>, <<Star>>}}

\* requests with the legacy time parameters, with and without time
LegacyTimeRequests ==
    {[NoRequest EXCEPT !.time_type = <<ty>>, !.time_values = <<v>>,
                       !.time = t] :
        ty \in {DAY, WEEK, MONTH}, v \in LegacyTimeValues,
        t \in {<<>>, <<Entry(WEEK, Star)>>}}
        \cup {[NoRequest EXCEPT !.time_type = <<<<>>>>, !.time = t] :
                t \in {<<>>, <<DAY>>, <<Entry(WEEK, Star)>>}}
        \cup {[NoRequest EXCEPT !.time_type = <<DAY>>, !.time = t] :
                t \in {<<>>, <<DAY>>}}

\* requests with one day or week parameter, here named date
DateRequests ==
    {[NoRequest EXCEPT !.date = <<t>>] : t \in DayTokens \cup WeekTokens}

Requests ==
    {[NoRequest EXCEPT !.time = t] : t \in Occurrences(TimeEntries)}
        \cup {[NoRequest EXCEPT !.time = <<<<>>>>]}
        \cup {[NoRequest EXCEPT !.geo = o] : o \in Occurrences(GeoEntries)}
        \cup {[NoRequest EXCEPT !.signal = o] :
                o \in Occurrences(SignalEntries)}
        \cup LegacyTimeRequests
        \cup LegacyGeoRequests
        \cup LegacySignalRequests
        \cup DateRequests

\* the scalars and ranges over a set of keys
TimeValuesOver(keys) ==
    {<<k>> : k \in keys}
        \cup {p \in keys \X keys : p[1] < p[2]}

TimeValueLists(keys) ==
    UNION {[1..n -> TimeValuesOver(keys)] : n \in 1..MaxValues}

TimeFilters ==
    {TimeFilter(DAY, FALSE, vs) : vs \in TimeValueLists(DayKeys)}
        \cup {TimeFilter(WEEK, FALSE, vs) : vs \in TimeValueLists(WeekKeys)}
        \cup {TimeFilter(DAY, TRUE, <<>>), TimeFilter(WEEK, TRUE, <<>>)}

RangeInputs == (-MaxInt..MaxInt) \cup DayKeys \cup WeekKeys

----------------------------------------------------------------------------
(* The request handler as a state machine *)

VARIABLES request, call, arg, result

\* TESTING_MODE of the process; of the request being served: http, what
\* authenticates it and its path, g, flask's request-scoped storage, pc, the
\* hook that runs next, and response, its status and the exception that
\* made it; redis, the keys with a LAST_USED entry
VARIABLES TESTING_MODE, http, g, pc, response, redis

security == <<TESTING_MODE, http, g, pc, response, redis>>

vars == <<request, call, arg, result, security>>

NoResult == [kind |-> "none", error |-> "", bounds |-> <<>>, value |-> <<>>]

NoAuthorization ==
    [type |-> "", username |-> "", password |-> "", token |-> ""]

NoHttp ==
    [auth |-> None, api_key |-> None, token |-> None,
     authorization |-> NoAuthorization, path |-> <<>>]

NoResponse == [status |-> 0, raised |-> ""]

Init ==
    /\ request = NoRequest
    /\ call = "idle"
    /\ arg = <<>>
    /\ result = NoResult
    /\ TESTING_MODE = FALSE
    /\ http = NoHttp
    /\ g = {}
    /\ pc = "idle"
    /\ response = NoResponse
    /\ redis = {}

\* a request arrives; its parameters are request.values
Receive ==
    /\ call = "idle"
    /\ request' \in Requests
    /\ call' = "received"
    /\ UNCHANGED <<arg, result, security>>

\* the handler calls one entry point on the request
Handle(name, outcome) ==
    /\ call = "received"
    /\ call' = name
    /\ result' = outcome
    /\ UNCHANGED <<request, arg, security>>

CallParseTimeArg == Handle("parse_time_arg", parse_time_arg(request.time))

CallParseSingleTimeArg ==
    Handle("parse_single_time_arg", parse_single_time_arg(request.time))

CallParseTimeFilters ==
    Handle("parse_time_filters", parse_time_filters(request))

CallParseGeoArg == Handle("parse_geo_arg", parse_geo_arg(request.geo))

CallParseSourceSignalArg ==
    Handle("parse_source_signal_arg", parse_source_signal_arg(request.signal))

CallParseGeoFilters ==
    Handle("parse_geo_filters", parse_geo_filters(request))

CallParseSourceSignalFilters ==
    Handle("parse_source_signal_filters", parse_source_signal_filters(request))

CallParseDayArg == Handle("parse_day_arg", parse_day_arg(request.date))

CallParseWeekArg == Handle("parse_week_arg", parse_week_arg(request.date))

CallParseDayRangeArg ==
    Handle("parse_day_range_arg", parse_day_range_arg(request.date))

CallParseWeekRangeArg ==
    Handle("parse_week_range_arg", parse_week_range_arg(request.date))

\* a direct call of a function on an argument
Apply(name, x, outcome) ==
    /\ call' = name
    /\ arg' = x
    /\ result' = outcome
    /\ UNCHANGED <<request, security>>

CallVerifyRange ==
    /\ call = "idle"
    /\ \E start \in RangeInputs, end \in RangeInputs :
            Apply("_verify_range", <<start, end>>, _verify_range(start, end))

CallParseDayValue ==
    /\ call = "idle"
    /\ \E t \in DayTokens : Apply("parse_day_value", t, parse_day_value(t))

CallParseWeekValue ==
    /\ call = "idle"
    /\ \E t \in WeekTokens : Apply("parse_week_value", t, parse_week_value(t))

CallToRanges ==
    /\ call = "idle"
    /\ \E f \in TimeFilters : Apply("to_ranges", f, Return(to_ranges(f)))

\* filters that count() is called on
GeoFilters ==
    {GeoFilter(<<"s", "t", "a", "t", "e">>, TRUE, <<>>)}
        \cup {GeoFilter(<<"s", "t", "a", "t", "e">>, FALSE, vs) :
                vs \in UNION {[1..n -> {<<"c", "a">>, <<"t", "x">>}] :
                                n \in 1..MaxValues}}

SourceSignalFilters ==
    {SourceSignalFilter(<<"s", "r", "c">>, TRUE, <<>>)}
        \cup {SourceSignalFilter(<<"s", "r", "c">>, FALSE, vs) :
                vs \in UNION {[1..n -> {<<"s", "i", "g">>, <<"x">>}] :
                                n \in 1..MaxValues}}

CallGeoFilterCount ==
    /\ call = "idle"
    /\ \E f \in GeoFilters :
            Apply("GeoFilter.count", f, Return(GeoFilter_count(f)))

CallSourceSignalFilterCount ==
    /\ call = "idle"
    /\ \E f \in SourceSignalFilters :
            Apply("SourceSignalFilter.count", f,
                  Return(SourceSignalFilter_count(f)))

CallTimeFilterCount ==
    /\ call = "idle"
    /\ \E f \in TimeFilters :
            Apply("TimeFilter.count", f, Return(TimeFilter_count(f)))

\* the outcome is handed on and the filter objects are discarded
Respond ==
    /\ call \notin {"idle", "received"}
    /\ request' = NoRequest
    /\ call' = "idle"
    /\ arg' = <<>>
    /\ result' = NoResult
    /\ UNCHANGED security

Next ==
    \/ Receive
    \/ CallParseTimeArg
    \/ CallParseSingleTimeArg
    \/ CallParseTimeFilters
    \/ CallParseGeoArg
    \/ CallParseSourceSignalArg
    \/ CallParseGeoFilters
    \/ CallParseSourceSignalFilters
    \/ CallParseDayArg
    \/ CallParseWeekArg
    \/ CallParseDayRangeArg
    \/ CallParseWeekRangeArg
    \/ CallGeoFilterCount
    \/ CallSourceSignalFilterCount
    \/ CallTimeFilterCount
    \/ CallVerifyRange
    \/ CallParseDayValue
    \/ CallParseWeekValue
    \/ CallToRanges
    \/ Respond

Spec == Init /\ [][Next]_vars

----------------------------------------------------------------------------
(* The request hooks of _security.py as flask runs them: the               *)
(* before_request functions, then the view unless one of them raised, then  *)
(* the after_request functions on the response, also on the response that   *)
(* stands for a raised exception.                                           *)

ApiKeys == {"", "key1", "nokey"}

Authorizations ==
    {NoAuthorization}
        \cup {[NoAuthorization EXCEPT !.type = "Basic", !.username = u,
                                      !.password = k] :
                u \in {"epidata", "other"}, k \in {"key1", "nokey"}}
        \cup {[NoAuthorization EXCEPT !.type = "Bearer", !.token = k] :
                k \in {"key1", "nokey"}}

Paths ==
    {URL_PREFIX \o <<"/">> \o route :
        route \in {<<"c", "o", "v", "i", "d", "c", "a", "s", "t", "/">>,
                   <<"l", "i", "b", "/", "x">>,
                   <<"a", "d", "m", "i", "n">>,
                   <<"v", "e", "r", "s", "i", "o", "n">>}}

HttpRequests ==
    [auth : {None} \cup {<<k>> : k \in ApiKeys},
     api_key : {None} \cup {<<k>> : k \in ApiKeys},
     token : {None} \cup {<<k>> : k \in ApiKeys},
     authorization : Authorizations,
     path : Paths]

SecurityInit ==
    /\ request = NoRequest
    /\ call = "idle"
    /\ arg = <<>>
    /\ result = NoResult
    /\ TESTING_MODE \in BOOLEAN
    /\ http = NoHttp
    /\ g = {}
    /\ pc = "idle"
    /\ response = NoResponse
    /\ redis = {}

\* a request arrives: a fresh g
ReceiveHttp ==
    /\ pc = "idle"
    /\ http' \in HttpRequests
    /\ g' = {}
    /\ response' = NoResponse
    /\ pc' = "before_request"
    /\ UNCHANGED <<request, call, arg, result, TESTING_MODE, redis>>

\* @app.before_request; an exception becomes the response and the view is
\* skipped
resolve_user ==
    /\ pc = "before_request"
    /\ LET r == _get_current_user(g, http)
       IN  IF _is_public_route(http.path)
           THEN /\ pc' = "view"
                /\ UNCHANGED <<g, response>>
           ELSE IF r.raised # ""
           THEN /\ g' = r.g
                /\ response' = [status |-> 401, raised |-> r.raised]
                /\ pc' = "after_request"
           ELSE /\ g' = r.g
                /\ pc' = "view"
                /\ UNCHANGED response
    /\ UNCHANGED <<request, call, arg, result, TESTING_MODE, http, redis>>

\* the view, plain or wrapped by require_role(required_role): the wrapper
\* reads current_user, which is _get_current_user(), and raises Unauthorized
\* without a user that has the role
View ==
    /\ pc = "view"
    /\ \E decorated \in BOOLEAN, has_role \in BOOLEAN :
            LET r == _get_current_user(g, http)
                user == (CHOOSE p \in r.g : p[1] = "user")[2]
            IN  IF ~decorated
                THEN /\ response' = [status |-> 200, raised |-> ""]
                     /\ g' = g
                ELSE /\ g' = r.g
                     /\ response' =
                            IF r.raised # "" \/ user = None \/ ~has_role
                            THEN [status |-> 401, raised |-> "Unauthorized"]
                            ELSE [status |-> 200, raised |-> ""]
    /\ pc' = "after_request"
    /\ UNCHANGED <<request, call, arg, result, TESTING_MODE, http, redis>>

\* @app.after_request; reading g.user when g holds no user raises
\* AttributeError
update_key_last_time_used ==
    /\ pc = "after_request"
    /\ IF TESTING_MODE \/ _is_public_route(http.path)
       THEN UNCHANGED <<response, redis>>
       ELSE IF ~HasUser(g)
       THEN /\ response' = [status |-> 500, raised |-> "AttributeError"]
            /\ UNCHANGED redis
       ELSE LET user == (CHOOSE p \in g : p[1] = "user")[2]
            IN  /\ redis' = IF user # None
                            THEN redis \cup {user[1].api_key}
                            ELSE redis
                /\ UNCHANGED response
    /\ pc' = "done"
    /\ UNCHANGED <<request, call, arg, result, TESTING_MODE, http, g>>

\* the response is sent and the request's g is dropped
SendResponse ==
    /\ pc = "done"
    /\ pc' = "idle"
    /\ http' = NoHttp
    /\ g' = {}
    /\ response' = NoResponse
    /\ UNCHANGED <<request, call, arg, result, TESTING_MODE, redis>>

SecurityNext ==
    \/ ReceiveHttp
    \/ resolve_user
    \/ View
    \/ update_key_last_time_used
    \/ SendResponse

SecuritySpec == SecurityInit /\ [][SecurityNext]_vars

----------------------------------------------------------------------------
(* Properties *)

TimeEntryPoints ==
    {"parse_time_arg", "parse_single_time_arg", "parse_time_filters"}

\* the directives of the time parameter, as the tokenizer yields them; the
\* properties below read them once, as d
TimeDirectives == _parse_common_multi_arg(request.time)

\* the tokens that the time entry point of this state parses
TimeTokens ==
    IF call = "parse_single_time_arg"
    THEN LET r == _parse_single_arg(request.time)
         IN  IF Returned(r) THEN <<r.value[2]>> ELSE <<>>
    ELSE IF call = "parse_time_arg"
    THEN LET d == TimeDirectives
         IN  IF Returned(d)
             THEN Extend([i \in 1..Len(d.value) |->
                            [time_values |-> d.value[i].values]])
             ELSE <<>>
    ELSE <<>>

\* a token A-B of two keys of n digits each
IsKeyRange(t, n) ==
    /\ Len(t) = 2 * n + 1
    /\ t[n + 1] = "-"
    /\ AllDigits(SubSeq(t, 1, n))
    /\ AllDigits(SubSeq(t, n + 2, 2 * n + 1))

RangeStart(t) == DigitsValue(SubSeq(t, 1, (Len(t) - 1) \div 2))

RangeEnd(t) == DigitsValue(SubSeq(t, ((Len(t) - 1) \div 2) + 2, Len(t)))

\* C1: every TimeFilter that parse_time_arg or parse_time_filters returns has
\* a time_type that is exactly "day" or "week", wildcard directives and
\* legacy requests included.
C1_TimeTypeIsDayOrWeek ==
    (call \in {"parse_time_arg", "parse_time_filters"} /\ Returned(result))
        => \A i \in 1..Len(result.value) :
                result.value[i].time_type \in {DAY, WEEK}

\* C2: in every TimeFilter the time entry points return, every range entry
\* (start, end) has start < end; a token with equal bounds is stored as the
\* scalar start, and a token with end < start makes the parse fail.
C2_RangesAreStrict ==
    call \in TimeEntryPoints =>
        LET tokens == TimeTokens
            \* one value per token, in the order of the tokens: no merge
            aligned ==
                /\ Returned(result)
                /\ Len(result.value) = 1
                /\ \/ call = "parse_single_time_arg"
                   \/ Len(TimeDirectives.value) = 1
        IN  /\ Returned(result) =>
                \A i \in 1..Len(result.value) :
                    \A k \in 1..Len(result.value[i].time_values) :
                        LET v == result.value[i].time_values[k]
                        IN  Len(v) = 2 => v[1] < v[2]
            /\ \A k \in 1..Len(tokens) :
                LET t == tokens[k]
                IN  (IsKeyRange(t, 8) \/ IsKeyRange(t, 6)) =>
                        /\ RangeEnd(t) < RangeStart(t) => ~Returned(result)
                        /\ (RangeEnd(t) = RangeStart(t) /\ aligned) =>
                                result.value[1].time_values[k]
                                    = <<RangeStart(t)>>

\* C2 witness: an entry point returned a filter that holds a range next to
\* the scalar of a token with equal bounds
C2_Witness ==
    /\ call \in TimeEntryPoints
    /\ Returned(result)
    /\ Len(result.value) = 1
    /\ \E k \in 1..Len(result.value[1].time_values) :
            Len(result.value[1].time_values[k]) = 2
    /\ \E k \in 1..Len(TimeTokens) :
            /\ IsKeyRange(TimeTokens[k], 8)
            /\ RangeEnd(TimeTokens[k]) = RangeStart(TimeTokens[k])

\* C3: every explicit value list of a filter built by parse_geo_arg,
\* parse_source_signal_arg or parse_time_arg holds at least one real
\* (non-empty) value; a directive with an empty value part yields no filter.
C3_ExplicitValuesAreReal ==
    /\ (call = "parse_geo_arg" /\ Returned(result)) =>
            \A i \in 1..Len(result.value) :
                result.value[i].wildcard
                    \/ \E k \in 1..Len(result.value[i].geo_values) :
                            Len(result.value[i].geo_values[k]) > 0
    /\ (call = "parse_source_signal_arg" /\ Returned(result)) =>
            \A i \in 1..Len(result.value) :
                result.value[i].wildcard
                    \/ \E k \in 1..Len(result.value[i].signal) :
                            Len(result.value[i].signal[k]) > 0
    /\ (call = "parse_time_arg" /\ Returned(result)) =>
            \A i \in 1..Len(result.value) :
                result.value[i].wildcard
                    \/ Len(result.value[i].time_values) > 0

\* the types that the directives d name
DirectiveTypes(d) == {d.value[i].type : i \in 1..Len(d.value)}

\* parse_time_arg was called with n or more directives, of m types or more
CalledWithDirectives(d, n, m) ==
    /\ call = "parse_time_arg"
    /\ Returned(d)
    /\ Len(d.value) >= n
    /\ Cardinality(DirectiveTypes(d)) >= m

\* the filters of the directives d parsed each on its own, or the failure of
\* the first directive that does not parse
ParsedDirectives(d) ==
    Comprehension([i \in 1..Len(d.value) |-> _parse_time_filter(d.value[i])])

\* C4 as claimed: two or more time directives whose granularities are not
\* all the same make parse_time_arg fail with the granularity-conflict
\* failure.
C4_MixedAlwaysConflict ==
    LET d == TimeDirectives
    IN  CalledWithDirectives(d, 2, 2) =>
            /\ result.kind = "ValidationFailedException"
            /\ result.error = "mixes"

\* C4 as amended: two or more time directives whose granularities are not
\* all the same make parse_time_arg fail with a validation failure and return
\* no filter: the granularity-conflict failure when every directive parses
\* on its own, else the failure of the first directive that does not.
C4_MixedFails ==
    LET d == TimeDirectives
    IN  CalledWithDirectives(d, 2, 2) =>
            LET fs == ParsedDirectives(d)
            IN  /\ result.kind = "ValidationFailedException"
                /\ Returned(fs) => result.error = "mixes"
                /\ ~Returned(fs) => result = fs

\* C4 witness: a wildcard and an explicit directive of two granularities
\* were refused as a conflict
C4_Witness ==
    LET d == TimeDirectives
    IN  /\ CalledWithDirectives(d, 2, 2)
        /\ result.error = "mixes"
        /\ \E i, j \in 1..Len(d.value) :
                d.value[i].wildcard /\ ~d.value[j].wildcard

\* parse_time_arg was called with two or more directives of one type, one
\* of them a wildcard
WildcardAmong(d) ==
    /\ CalledWithDirectives(d, 2, 1)
    /\ Cardinality(DirectiveTypes(d)) = 1
    /\ \E i \in 1..Len(d.value) : d.value[i].wildcard

\* the wildcard filter of the one granularity the directives d name
WildcardOf(d) == Return(<<TimeFilter(d.value[1].type, TRUE, <<>>)>>)

\* C5 as claimed: two or more directives of one granularity, one of them a
\* wildcard, give the wildcard filter of that granularity whatever the
\* explicit values of the others.
C5_WildcardAlwaysAbsorbs ==
    LET d == TimeDirectives
    IN  WildcardAmong(d) => result = WildcardOf(d)

\* C5 as amended: two or more directives of one granularity, one of them a
\* wildcard, give the wildcard filter of that granularity wherever the
\* wildcard stands, provided every explicit directive parses on its own;
\* else the call fails with the failure of the first that does not.
C5_WildcardAbsorbs ==
    LET d == TimeDirectives
    IN  WildcardAmong(d) =>
            LET fs == ParsedDirectives(d)
            IN  /\ Returned(fs) => result = WildcardOf(d)
                /\ ~Returned(fs) => result = fs

\* C5 witness: the wildcard came after an explicit directive and absorbed it
C5_Witness ==
    LET d == TimeDirectives
    IN  /\ WildcardAmong(d)
        /\ ~d.value[1].wildcard
        /\ result = WildcardOf(d)

\* parse_time_arg was called with two or more explicit directives of one
\* type
ExplicitOnly(d) ==
    /\ CalledWithDirectives(d, 2, 1)
    /\ Cardinality(DirectiveTypes(d)) = 1
    /\ \A i \in 1..Len(d.value) : ~d.value[i].wildcard

\* the calendar positions a value list covers
Covered(time_type, values) ==
    UNION {CalendarIndex(time_type, values[k][1])
                ..CalendarIndex(time_type, values[k][Len(values[k])]) :
            k \in 1..Len(values)}

\* no two entries overlap or touch: nothing is left to coalesce
Coalesced(time_type, values) ==
    \A j, k \in 1..Len(values) :
        j # k =>
            \/ CalendarIndex(time_type, values[j][Len(values[j])]) + 1
                    < CalendarIndex(time_type, values[k][1])
            \/ CalendarIndex(time_type, values[k][Len(values[k])]) + 1
                    < CalendarIndex(time_type, values[j][1])

OnlyDirectiveOutcome(d) ==
    LET f == _parse_time_filter(d.value[1])
    IN  IF Returned(f) THEN Return(<<f.value>>) ELSE f

\* C7: with exactly one directive parse_time_arg returns the filter parsed
\* from it unchanged (same granularity, one value per token in the order of
\* the tokens, nothing collapsed); with an empty parameter it returns none.
C7_SingleUnchanged ==
    call = "parse_time_arg" =>
        LET d == TimeDirectives
            only == d.value[1]
        IN  /\ (Returned(d) /\ Len(d.value) = 1) =>
                /\ result = OnlyDirectiveOutcome(d)
                /\ (Returned(result) /\ ~only.wildcard) =>
                    /\ result.value[1].time_type = only.type
                    /\ Len(result.value[1].time_values) = Len(only.values)
                    /\ \A k \in 1..Len(only.values) :
                            AllDigits(only.values[k]) =>
                                result.value[1].time_values[k]
                                    = <<DigitsValue(only.values[k])>>
            /\ Len(Join(request.time, <<";">>)) = 0 => result = Return(<<>>)

\* C7 witness: one directive of two adjacent days came back as two scalars
C7_Witness ==
    LET d == TimeDirectives
    IN  /\ call = "parse_time_arg"
        /\ Returned(d)
        /\ Len(d.value) = 1
        /\ Returned(result)
        /\ result.value[1].time_values = <<<<20200201>>, <<20200131>>>>

\* C8: TimeFilter.to_ranges is idempotent: applied to its own result it
\* returns that result, for wildcard and explicit, day and week filters.
C8_ToRangesIdempotent ==
    call = "to_ranges" => to_ranges(result.value) = result.value

\* C8 witness: to_ranges coalesced the entries of a filter into fewer
C8_Witness ==
    /\ call = "to_ranges"
    /\ ~arg.wildcard
    /\ Len(result.value.time_values) < Len(arg.time_values)
    /\ \E k \in 1..Len(result.value.time_values) :
            Len(result.value.time_values[k]) = 2

\* C9: _verify_range returns the scalar start when start = end, the pair
\* (start, end) when start < end, and fails with the range-inverted
\* validation failure naming both bounds when end < start.
C9_VerifyRange ==
    call = "_verify_range" =>
        LET start == arg[1]
            end == arg[2]
        IN  /\ start = end =>
                Returned(result) /\ result.value = <<start>>
            /\ start < end =>
                Returned(result) /\ result.value = <<start, end>>
            /\ end < start =>
                /\ result.kind = "ValidationFailedException"
                /\ result.error = "inverted"
                /\ result.bounds = <<start, end>>

\* C9 witness: an inverted pair was refused
C9_Witness ==
    /\ call = "_verify_range"
    /\ arg[2] < arg[1]
    /\ result.kind = "ValidationFailedException"

\* YYYY-MM-DD--YYYY-MM-DD, nothing before or after
IsIsoRange(t) ==
    /\ Len(t) = 22
    /\ IsIsoDate(SubSeq(t, 1, 10))
    /\ SubSeq(t, 11, 12) = <<"-", "-">>
    /\ IsIsoDate(SubSeq(t, 13, 22))

\* the token is, in its entirety, one of the day grammars
IsDayGrammar(t) ==
    \/ Len(t) = 8 /\ AllDigits(t)
    \/ IsIsoDate(t)
    \/ IsKeyRange(t, 8)
    \/ IsIsoRange(t)

\* the token is, in its entirety, one of the week grammars
IsWeekGrammar(t) ==
    \/ Len(t) = 6 /\ AllDigits(t)
    \/ IsKeyRange(t, 6)

\* C10: parse_day_value and parse_week_value return a value only for a token
\* that is in its entirety one of the recognised grammars; every other token
\* fails with the format validation failure.
C10_OnlyWholeGrammarTokens ==
    /\ call = "parse_day_value" =>
        /\ Returned(result) => IsDayGrammar(arg)
        /\ ~IsDayGrammar(arg) =>
            /\ result.kind = "ValidationFailedException"
            /\ result.error = "day_format"
    /\ call = "parse_week_value" =>
        /\ Returned(result) => IsWeekGrammar(arg)
        /\ ~IsWeekGrammar(arg) =>
            /\ result.kind = "ValidationFailedException"
            /\ result.error = "week_format"

\* the functions that parse one day or week value of the client
ValueParsers ==
    {"parse_day_value", "parse_week_value", "parse_day_arg", "parse_week_arg",
     "parse_day_range_arg", "parse_week_range_arg"}

\* C11: for every string given as a day or week value, parse_day_value,
\* parse_week_value and the entry points that call them on the raw parameter
\* either return a value or raise ValidationFailedException, never another
\* error.
C11_OnlyValidationFailures ==
    call \in ValueParsers =>
        result.kind \in {"return", "ValidationFailedException"}

\* the legacy marker parameter is present and non-empty
Marked(values) == Len(Get(values)) > 0

\* other contents of a new-style parameter: absent, or one occurrence
Alternatives(entries) == {<<>>} \cup {<<e>> : e \in entries}

\* C12: when the legacy marker (geo_type, data_source, time_type) is present
\* and non-empty, the outcome is that of the legacy parameters alone: any
\* other content of the new-style parameter (geo, time, and signal when
\* signals carries the values) gives the same outcome, and signal as the
\* companion of data_source is read as signals is, never as a directive.
C12_LegacyAloneDecides ==
    /\ (call = "parse_geo_filters" /\ Marked(request.geo_type)) =>
            \A o \in Alternatives(GeoEntries) :
                parse_geo_filters([request EXCEPT !.geo = o]) = result
    /\ (call = "parse_time_filters" /\ Marked(request.time_type)) =>
            \A t \in Alternatives(TimeEntries) :
                parse_time_filters([request EXCEPT !.time = t]) = result
    /\ (call = "parse_source_signal_filters" /\ Marked(request.data_source)) =>
            IF Len(request.signals) > 0
            THEN \A v \in Alternatives(SignalEntries) :
                    parse_source_signal_filters(
                        [request EXCEPT !.signal = v]) = result
            ELSE parse_source_signal_filters(
                    [request EXCEPT !.signals = request.signal,
                                    !.signal = <<>>]) = result

\* C12 witness: a legacy geography request whose geo parameter is not a
\* directive returned the legacy filter
C12_Witness ==
    /\ call = "parse_geo_filters"
    /\ Marked(request.geo_type)
    /\ Len(request.geo) > 0
    /\ ~Contains(Get(request.geo), ":")
    /\ Returned(result)

\* [\w\-_]+ in its entirety
IsSingleToken(t) == Len(t) > 0 /\ \A i \in 1..Len(t) : IsKeyChar(t[i])

\* the request is geo_type=T&geo_value=V and nothing else, T and V single
\* tokens
LegacyGeoPair ==
    /\ Len(request.geo_type) = 1 /\ IsSingleToken(request.geo_type[1])
    /\ Len(request.geo_value) = 1 /\ IsSingleToken(request.geo_value[1])
    /\ request = [NoRequest EXCEPT !.geo_type = request.geo_type,
                                   !.geo_value = request.geo_value]

\* the outcome of parse_geo_filters on the request geo=T:V
NewStyleGeoOutcome ==
    parse_geo_filters(
        [NoRequest EXCEPT !.geo = <<Entry(request.geo_type[1],
                                         request.geo_value[1])>>])

\* C13 as stated: geo_type=T&geo_value=V yields the same list of GeoFilter
\* objects from parse_geo_filters as geo=T:V, for every single token T, V.
C13_LegacyAlwaysEqualsNew ==
    (call = "parse_geo_filters" /\ LegacyGeoPair) =>
        result = NewStyleGeoOutcome

\* C13 as amended: geo_type=T&geo_value=V yields the same list of GeoFilter
\* objects as geo=T:V for every single token T, V in lower case.
C13_LegacyEqualsNewLowerCase ==
    (call = "parse_geo_filters" /\ LegacyGeoPair
        /\ Lower(request.geo_type[1]) = request.geo_type[1]
        /\ Lower(request.geo_value[1]) = request.geo_value[1]) =>
        result = NewStyleGeoOutcome

\* C13 witness: geo_type=state&geo_value=ca returned what geo=state:ca does
C13_Witness ==
    /\ call = "parse_geo_filters"
    /\ LegacyGeoPair
    /\ request.geo_value[1] = <<"c", "a">>
    /\ Returned(result)
    /\ result = NewStyleGeoOutcome

\* C14: in the legacy branch, a companion value parameter that is the lone
\* value * yields the wildcard filter of the marker's type, in each of
\* parse_geo_filters, parse_source_signal_filters and parse_time_filters.
C14_LegacyLoneStarIsWildcard ==
    /\ (call = "parse_geo_filters" /\ Marked(request.geo_type)
            /\ extract_strings(<<request.geo_values,
                                 request.geo_value>>) = <<Star>>) =>
            result = Return(<<GeoFilter(Get(request.geo_type), TRUE, <<>>)>>)
    /\ (call = "parse_source_signal_filters" /\ Marked(request.data_source)
            /\ extract_strings(<<request.signals,
                                 request.signal>>) = <<Star>>) =>
            result = Return(<<SourceSignalFilter(Get(request.data_source),
                                                 TRUE, <<>>)>>)
    /\ (call = "parse_time_filters" /\ Marked(request.time_type)
            /\ request.time_values = <<Star>>) =>
            result = Return(<<TimeFilter(Get(request.time_type),
                                         TRUE, <<>>)>>)

\* the ;-separated entries of every occurrence of a parameter
EntriesOf(values) == Split(Join(values, <<";">>), <<";">>, -1)

\* the discriminator of each filter of a returned list
FilterTypes(filters) ==
    [i \in 1..Len(filters) |->
        IF call = "parse_geo_arg" THEN filters[i].geo_type
        ELSE filters[i].source]

\* the parameter that the multi-directive parser of this state reads
MultiArg ==
    IF call = "parse_geo_arg" THEN request.geo ELSE request.signal

\* C15 as stated: the list that parse_geo_arg (parse_source_signal_arg)
\* returns holds exactly one filter per distinct geo_type (source) mentioned
\* in the parameter.
C15_OneFilterPerType ==
    (call \in {"parse_geo_arg", "parse_source_signal_arg"}
        /\ Returned(result)) =>
        LET types == FilterTypes(result.value)
        IN  /\ \A i, j \in 1..Len(types) : types[i] = types[j] => i = j
            /\ Len(MultiArg) > 0 =>
                    {types[i] : i \in 1..Len(types)}
                        = {Lower(Strip(EntryGroup1(e))) :
                            e \in {EntriesOf(MultiArg)[k] :
                                    k \in 1..Len(EntriesOf(MultiArg))}}

\* C15 as amended: the list holds exactly one filter per ;-separated entry
\* of the parameter (all occurrences joined), in entry order, each with the
\* discriminator of its entry; entries of one discriminator stay separate.
C15_OneFilterPerEntry ==
    (call \in {"parse_geo_arg", "parse_source_signal_arg"}
        /\ Returned(result)) =>
        LET types == FilterTypes(result.value)
            entries == EntriesOf(MultiArg)
        IN  IF Join(MultiArg, <<";">>) = <<>> THEN Len(types) = 0
            ELSE /\ Len(types) = Len(entries)
                 /\ \A i \in 1..Len(types) :
                        types[i] = Lower(Strip(EntryGroup1(entries[i])))

\* C15 witness: two entries of one geo_type gave two filters
C15_Witness ==
    /\ call = "parse_geo_arg"
    /\ Returned(result)
    /\ Len(result.value) = 2
    /\ result.value[1].geo_type = result.value[2].geo_type

\* the key names a day of the calendar
IsDayKey(k) ==
    /\ ((k \div 100) % 100) \in 1..12
    /\ (k % 100) \in 1..DaysInMonth(k \div 10000, (k \div 100) % 100)

\* the key names a week of its year
IsWeekKey(k) ==
    (k % 100) \in
        1..((Week1Start((k \div 100) + 1) - Week1Start(k \div 100)) \div 7)

\* the days or weeks from v[1] to v[2], both included, one by one
Span(time_type, v) ==
    IF Len(v) = 1 THEN 1
    ELSE Cardinality({k \in v[1]..v[2] :
                        IF time_type = WEEK THEN IsWeekKey(k)
                        ELSE IsDayKey(k)})

C17_NoMarkerNoColonFails ==
    /\ (call = "parse_geo_filters" /\ ~Marked(request.geo_type)
            /\ ~Contains(Get(request.geo), ":")) =>
            result = Raise("missing")
    /\ (call = "parse_source_signal_filters" /\ ~Marked(request.data_source)
            /\ ~Contains(Get(request.signal), ":")) =>
            result = Raise("missing")
    /\ (call = "parse_time_filters" /\ ~Marked(request.time_type)
            /\ ~Contains(Get(request.time), ":")) =>
            result = Raise("missing")

\* C17 witness: geo without a colon and with an empty geo_type was refused
C17_Witness ==
    /\ call = "parse_geo_filters"
    /\ request.geo_type = <<<<>>>>
    /\ Len(Get(request.geo)) > 0
    /\ ~Contains(Get(request.geo), ":")
    /\ result.kind = "ValidationFailedException"

\* C18: parse_day_value gives the compact spelling YYYYMMDD and the ISO
\* spelling YYYY-MM-DD of one date the identical integer, and the compact
\* range YYYYMMDD-YYYYMMDD and the ISO range YYYY-MM-DD--YYYY-MM-DD of the
\* same two dates the identical result.
C18_CompactEqualsIso ==
    call = "parse_day_value" =>
        /\ (Len(arg) = 8 /\ AllDigits(arg)) =>
                /\ result = Return(<<DigitsValue(arg)>>)
                /\ parse_day_value(Iso(DigitsValue(arg))) = result
        /\ IsKeyRange(arg, 8) =>
                parse_day_value(Iso(RangeStart(arg)) \o <<"-", "-">>
                                    \o Iso(RangeEnd(arg))) = result

\* C18 witness: a compact range was parsed to a pair of keys
C18_Witness ==
    /\ call = "parse_day_value"
    /\ IsKeyRange(arg, 8)
    /\ Returned(result)
    /\ Len(result.value) = 2

\* C19: whenever parse_time_filters returns, it returns a TimeFilter and
\* never none.
C19_TimeFiltersNeverNone ==
    (call = "parse_time_filters" /\ Returned(result)) =>
        /\ Len(result.value) = 1
        /\ DOMAIN result.value[1] = {"time_type", "wildcard", "time_values"}

\* C19 witness: the new-style branch returned a filter
C19_Witness ==
    /\ call = "parse_time_filters"
    /\ ~Marked(request.time_type)
    /\ Returned(result)
    /\ Len(result.value) = 1

\* C20: on every request to a non-public route outside testing mode,
\* update_key_last_time_used reads g.user only after resolve_user has stored
\* it, whatever the outcome of resolve_user: when the after-request hook has
\* run on such a request, g holds a user.
C20_UserStoredBeforeRead ==
    (pc = "done" /\ ~TESTING_MODE /\ ~_is_public_route(http.path)) =>
        HasUser(g)

====
